---- MODULE Spec2Model ----
(***************************************************************************)
(* Room-acoustics simulation backend: run_simulation (simulation.py) as a  *)
(* step machine, and the DOA helpers run_doa / calculate_true_angles       *)
(* (algorithms/doa.py) as functions applied to bounded inputs.             *)
(*                                                                         *)
(* Conventions of the model:                                               *)
(*  - a 2-D point is a pair <<x, y>>; Python's None is the empty tuple;    *)
(*  - a length in metres is a pair <<pixels, scale>> (pixels / scale);     *)
(*  - angles are whole degrees, Pi being 180;                              *)
(*  - a normalised value is a fraction <<numerator, denominator>>;         *)
(*  - a signal is a sequence of integer samples; the per-microphone mean   *)
(*    (np.mean(..., axis=0)) is kept as the channel sum, because its       *)
(*    factor 1 / n_mics cancels in signal / max_val;                       *)
(*  - calls into pyroomacoustics / scipy / os may raise: each such call    *)
(*    is a nondeterministic choice between returning and raising.          *)
(***************************************************************************)
EXTENDS Integers, Sequences, FiniteSets

\* ---------------------------------------------------------------- bounds
MaxSources == 2      \* longest audio_sources list of a request
MaxMics == 2         \* most microphones of a request
GridLen == 3         \* points of the azimuth grid (the library uses 360)
MaxResp == 2         \* largest raw spatial-response value
SigLen == 2          \* samples of a rendered signal
MaxAmp == 2          \* largest absolute sample value
MaxCoord == 3        \* pixel coordinates range over 0..MaxCoord

\* ------------------------------------------------------ program constants
Pi == 180
INT16_SCALE == 32767
DEFAULT_SCALE == 100
MIN_DOA_MICS == 2
DOA_MIN_MICS == 2
DEFAULT_NUM_SOURCES == 2

None == <<>>
Abs(n) == IF n < 0 THEN -n ELSE n
Range(s) == {s[k] : k \in DOMAIN s}

RECURSIVE SeqSum(_)
SeqSum(s) == IF s = <<>> THEN 0 ELSE Head(s) + SeqSum(Tail(s))

SeqMax(s) == CHOOSE m \in Range(s) : \A v \in Range(s) : v <= m
SeqMin(s) == CHOOSE m \in Range(s) : \A v \in Range(s) : m <= v

\* Python's int(): truncation towards zero of num / den, den > 0.
Trunc(num, den) == IF num >= 0 THEN num \div den ELSE -((-num) \div den)

\* ------------------------------------------------------------- pure parts

\* pixels_to_meters, one coordinate: pixels / scale, kept as the exact fraction.
PixelsToMeters(px, sc) == <<px, sc>>

\* arctan(a / b) in degrees for 0 <= a <= b, b > 0, rounded down; exact at
\* a = 0 (0 degrees) and a = b (45 degrees), increasing in a / b in between.
AtanDeg(a, b) == (4500 * a * b + 1564 * a * (b - a)) \div (100 * b * b)

\* np.arctan2(y, x) for integers, in degrees, in (-Pi, Pi].
Arctan2(y, x) ==
    LET ay == Abs(y)
        ax == Abs(x)
        base == IF ax = 0 /\ ay = 0 THEN 0
                ELSE IF ay <= ax THEN AtanDeg(ay, ax)
                ELSE (Pi \div 2) - AtanDeg(ax, ay)
    IN  IF x >= 0 THEN (IF y >= 0 THEN base ELSE -base)
        ELSE (IF y >= 0 THEN Pi - base ELSE base - Pi)

\* Mutant of BearingRaw: the vertical axis is not inverted.
BearingRawNoFlip(dy, dx) == Arctan2(dy, dx)

\* np.arctan2(-dy, dx) where dy is a float difference: when dy is 0.0 its
\* negation is -0.0, for which arctan2 returns -0.0 (dx >= 0) or -pi (dx < 0).
BearingRaw(dy, dx) ==
    IF dy = 0 THEN (IF dx < 0 THEN -Pi ELSE 0) ELSE Arctan2(-dy, dx)

\* "if angle < 0: angle += 2 * np.pi"
WrapAngle(angle) == IF angle < 0 THEN angle + 2 * Pi ELSE angle

\* doa.py: the bearing of one source position seen from robot_position.
TrueAngle(robot_position, src) ==
    WrapAngle(BearingRaw(src[2] - robot_position[2], src[1] - robot_position[1]))

\* doa.py calculate_true_angles: None entries are skipped.
RECURSIVE calculate_true_angles(_, _)
calculate_true_angles(robot_position, source_positions) ==
    IF source_positions = <<>> THEN <<>>
    ELSE LET src == Head(source_positions)
             rest == calculate_true_angles(robot_position, Tail(source_positions))
         IN  IF src = None THEN rest
             ELSE <<TrueAngle(robot_position, src)>> \o rest

\* simulation.py, the inline ground-truth loop over audio_sources.
InlineAngle(robot_position, position) ==
    WrapAngle(BearingRaw(position[2] - robot_position[2],
                         position[1] - robot_position[1]))

RECURSIVE InlineTrueAngles(_, _)
InlineTrueAngles(robot_position, sources) ==
    IF sources = <<>> THEN <<>>
    ELSE LET source == Head(sources)
             rest == InlineTrueAngles(robot_position, Tail(sources))
         IN  IF source.position = None THEN rest
             ELSE <<InlineAngle(robot_position, source.position)>> \o rest

\* simulation.py: min-max normalisation of doa.grid.values; a flat curve is
\* left as it is (there is no else branch).
NormalizeSim(resp) ==
    LET min_val == SeqMin(resp)
        max_val == SeqMax(resp)
    IN  IF max_val > min_val
        THEN [k \in DOMAIN resp |-> <<resp[k] - min_val, max_val - min_val>>]
        ELSE [k \in DOMAIN resp |-> <<resp[k], 1>>]

\* doa.py run_doa: the same, with np.zeros_like for a flat curve.
NormalizeDoa(spatial_response) ==
    LET min_val == SeqMin(spatial_response)
        max_val == SeqMax(spatial_response)
    IN  IF max_val > min_val
        THEN [k \in DOMAIN spatial_response |->
                 <<spatial_response[k] - min_val, max_val - min_val>>]
        ELSE [k \in DOMAIN spatial_response |-> <<0, 1>>]

\* Mutant of PeakNormalize: scaled to full scale, the factor 0.9 is missing.
PeakNormalizeFullScale(signal) ==
    LET max_val == SeqMax([k \in DOMAIN signal |-> Abs(signal[k])])
    IN  IF max_val > 0
        THEN [k \in DOMAIN signal |-> <<signal[k], max_val>>]
        ELSE [k \in DOMAIN signal |-> <<signal[k], 1>>]

\* simulation.py: "if max_val > 0: signal = signal / max_val * 0.9".
PeakNormalize(signal) ==
    LET max_val == SeqMax([k \in DOMAIN signal |-> Abs(signal[k])])
    IN  IF max_val > 0
        THEN [k \in DOMAIN signal |-> <<signal[k] * 9, max_val * 10>>]
        ELSE [k \in DOMAIN signal |-> <<signal[k], 1>>]

\* "(signal * 32767).astype(np.int16)": truncation towards zero.
ToInt16(signal) ==
    [k \in DOMAIN signal |-> Trunc(signal[k][1] * INT16_SCALE, signal[k][2])]

\* np.sum over the sources of premix: room.mic_array.signals.
MixDown(premix) ==
    [k \in 1..SigLen |-> SeqSum([s \in DOMAIN premix |-> premix[s][k]])]

\* ------------------------------------------------------------ input sets

\* Room polygons of a request: a two-corner "polygon" (degenerate) and a square
\* that holds the robot and every placed source in its interior.
Side == MaxCoord + 1
Segment == << <<0, 0>>, <<Side, 0>> >>
Square == << <<0, 0>>, <<Side, 0>>, <<Side, Side>>, <<0, Side>> >>
Rooms == {Segment, Square}

Degenerate(c) == Len(c) < 3

Scales == {0, DEFAULT_SCALE}
Radii == {-1, 0, 1}
RobotPositions == {<<2, 2>>}
\* Where source k is placed, if it is: to the robot's right, above it (smaller
\* y), to its left, below it, in turn.
PlacedPosition(k) ==
    CASE k % 4 = 1 -> <<3, 2>>
      [] k % 4 = 2 -> <<2, 1>>
      [] k % 4 = 3 -> <<1, 2>>
      [] OTHER -> <<2, 3>>

\* Normalised microphone offsets (nx, ny) on the robot's rim, in request order.
MicLayout(k) == IF k % 2 = 1 THEN <<1, 0>> ELSE <<-1, 0>>

\* The azimuth grid of every DOA object: GridLen equally spaced angles.
Grid == [k \in 1..GridLen |-> ((k - 1) * 2 * Pi) \div GridLen]

algo_names == <<"SRP", "MUSIC", "TOPS">>
Algos == Range(algo_names)

\* Raw spatial responses (doa.grid.values) the step machine draws from: a flat
\* non-zero curve and a curve with one peak.
FlatCurve == [k \in 1..GridLen |-> 1]
PeakCurve == [k \in 1..GridLen |-> IF k = 1 THEN MaxResp ELSE 0]
StepCurves == {FlatCurve, PeakCurve}

\* Rendered signals the step machine draws from: silence and a burst.
\* (RenderAll below takes arbitrary signals.)
Silence == [k \in 1..SigLen |-> 0]
Burst == [k \in 1..SigLen |-> IF k = 1 THEN -MaxAmp ELSE 1]
StepSignals == {Silence, Burst}

\* ----------------------------------------------------------------- state

VARIABLES
    pc,               \* position in run_simulation
    room_coords, robot_position, robot_radius, microphones,
    audio_sources, audio_files, scale,          \* the arguments
    has_recon,        \* hasattr(doa, 'azimuth_recon') of the installed library
    room_built,       \* pra.Room.from_corners and extrude have returned
    mic_positions,    \* local mic_positions, in metres
    i,                \* index of the running for loop
    source_count,     \* local source_count
    room_sources,     \* room.sources: indices of audio_sources added
    room_mics,        \* room.add_microphone has returned
    simulated,        \* room.simulate has returned
    premix,           \* premix, one signal per room source
    signals,          \* room.mic_array.signals
    reads,            \* names handed to wavfile.read so far
    spatial_resp, estimated_angles, azimuth_grid,   \* locals of the DOA stage
    raised,           \* algorithms whose try block raised (history)
    doa_error,        \* the DOA stage's own handler ran (history)
    doa_result,       \* local doa_result
    output_files,     \* local output_files
    disk,             \* files written to output_dir: <<name, samples>>
    result,           \* the returned dictionary
    fpc, farg, fret,  \* the helper functions: call state, argument, result
    epc,              \* position in the /simulate endpoint
    response          \* what the endpoint handed back to the framework

simVars == <<pc, has_recon, room_coords, robot_position, robot_radius, microphones,
             audio_sources, audio_files, scale, room_built, mic_positions, i,
             source_count, room_sources, room_mics, simulated, premix, signals,
             reads, spatial_resp, estimated_angles, azimuth_grid, raised,
             doa_error, doa_result, output_files, disk, result>>
fnVars == <<fpc, farg, fret>>
apiVars == <<epc, response>>
vars == <<simVars, fnVars, apiVars>>

EmptyByAlgo == [a \in Algos |-> <<>>]

NoneDoa == [none |-> TRUE, azimuth_grid |-> <<>>, spatial_response |-> EmptyByAlgo,
            estimated_angles |-> EmptyByAlgo, true_angles |-> <<>>]

NoResult == [returned |-> FALSE, success |-> FALSE, message |-> "", n |-> 0,
             output_files |-> <<>>, doa |-> NoneDoa]

MSG_NO_MICS == "no microphones placed"
MSG_NO_SOURCES == "no placed source or audio could not be loaded"
MSG_ERROR == "simulation error"
MSG_DONE == "simulation complete"

\* Mutant of Failure: the failure result keeps the files listed so far.
FailureKeepsFiles(msg) ==
    [returned |-> TRUE, success |-> FALSE, message |-> msg, n |-> 0,
     output_files |-> output_files, doa |-> NoneDoa]

\* The failure dictionary of lines 78-83, 138-143 and 267-272.
Failure(msg) == [returned |-> TRUE, success |-> FALSE, message |-> msg, n |-> 0,
                 output_files |-> <<>>, doa |-> NoneDoa]

\* The audio_sources of a request: up to MaxSources sources, named by their
\* index, each placed or not.
Placements == UNION {[1..n -> BOOLEAN] : n \in 0..MaxSources}
Placed(placement) ==
    [k \in DOMAIN placement |-> IF placement[k] THEN PlacedPosition(k) ELSE None]
Request(ps) == [k \in DOMAIN ps |-> [name |-> k, position |-> ps[k]]]

SimIdle ==
    /\ pc = "idle"
    /\ room_coords = <<>> /\ robot_position = <<0, 0>> /\ robot_radius = 0
    /\ microphones = <<>> /\ audio_sources = <<>> /\ audio_files = {}
    /\ scale = DEFAULT_SCALE

SimLocalsInit ==
    /\ room_built = FALSE
    /\ mic_positions = <<>>
    /\ i = 0
    /\ source_count = 0
    /\ room_sources = <<>>
    /\ room_mics = FALSE
    /\ simulated = FALSE
    /\ premix = <<>>
    /\ signals = <<>>
    /\ reads = <<>>
    /\ spatial_resp = EmptyByAlgo
    /\ estimated_angles = EmptyByAlgo
    /\ azimuth_grid = None
    /\ raised = {}
    /\ doa_error = FALSE
    /\ doa_result = NoneDoa
    /\ output_files = <<>>
    /\ disk = <<>>
    /\ result = NoResult

\* The argument and the return value of a helper call, one record for all.
NoArg == [fn |-> "", robot_position |-> <<0, 0>>, source_positions |-> <<>>,
          n_mics |-> 0, throws |-> FALSE, values |-> <<>>, premix |-> <<>>]

NoRet == [success |-> FALSE, message |-> "", azimuth_grid |-> <<>>,
          spatial_response |-> <<>>, estimated_angles |-> <<>>,
          angles |-> <<>>, sources |-> <<>>, mixed |-> <<>>]

FnIdle == fpc = "idle" /\ farg = NoArg /\ fret = NoRet

\* The endpoint's outcome, one record for all: a SimulationResponse, or the
\* exception that left the handler.
NoResponse == [raised |-> FALSE, success |-> FALSE, message |-> "",
               output_files |-> <<>>]

ApiIdle == epc = "idle" /\ response = NoResponse

\* run_simulation has been called with some request.
Called ==
    /\ pc = "room"
    /\ room_coords \in Rooms
    /\ robot_position \in RobotPositions
    /\ robot_radius \in Radii
    /\ \E n \in 0..MaxMics : microphones = [k \in 1..n |-> MicLayout(k)]
    /\ \E placement \in Placements : audio_sources = Request(Placed(placement))
    /\ audio_files \in SUBSET (1..MaxSources)
    /\ scale \in Scales
    /\ has_recon \in BOOLEAN
    /\ SimLocalsInit

Init ==
    /\ Called
    /\ FnIdle
    /\ ApiIdle

\* ------------------------------------------------------- run_simulation

args == <<room_coords, robot_position, robot_radius, microphones,
          audio_sources, audio_files, scale, has_recon>>
doaLocals == <<spatial_resp, estimated_angles, azimuth_grid, raised, doa_error>>

\* "except Exception as e": the outer handler's return value.
Caught ==
    /\ pc' = "done"
    /\ result' = Failure(MSG_ERROR)

\* Lines 58-74: os.makedirs, pixels_to_meters, Room.from_corners, extrude.
\* Dividing by a zero scale raises ZeroDivisionError; from_corners raises
\* ValueError for fewer than three corners; any of the calls may raise.
MakeRoom ==
    /\ pc = "room"
    /\ \E throws \in BOOLEAN :
         /\ (scale = 0 \/ Len(room_coords) < 3) => throws
         /\ IF throws
            THEN Caught /\ UNCHANGED room_built
            ELSE /\ room_built' = TRUE
                 /\ pc' = "mics"
                 /\ UNCHANGED result
    /\ UNCHANGED <<args, mic_positions, i, source_count, room_sources, room_mics,
                   simulated, premix, signals, reads, doaLocals, doa_result,
                   output_files, disk, fnVars, apiVars>>

\* Lines 77-99: the zero-microphone return, then the absolute microphone
\* positions robot + (nx, ny) * robot_r in metres. robot_radius is used as
\* given: no test of its sign.
MicPosition(mic) ==
    << PixelsToMeters(robot_position[1] + mic[1] * robot_radius, scale),
       PixelsToMeters(robot_position[2] + mic[2] * robot_radius, scale) >>

CheckMics ==
    /\ pc = "mics"
    /\ IF Len(microphones) = 0
       THEN /\ pc' = "done"
            /\ result' = Failure(MSG_NO_MICS)
            /\ UNCHANGED <<mic_positions, i>>
       ELSE IF scale = 0
       THEN Caught /\ UNCHANGED <<mic_positions, i>>
       ELSE /\ mic_positions' = [k \in DOMAIN microphones |-> MicPosition(microphones[k])]
            /\ i' = 1
            /\ pc' = "sources"
            /\ UNCHANGED result
    /\ UNCHANGED <<args, room_built, source_count, room_sources, room_mics,
                   simulated, premix, signals, reads, doaLocals, doa_result,
                   output_files, disk, fnVars, apiVars>>

\* Lines 103-135, one iteration: a source without position or without an
\* entry in audio_files is skipped; otherwise its file is read and the source
\* added, and an exception of either (inner try) skips the source as well.
\* Mutant of Skipped: the audio_files membership test is missing.
SkippedOnlyUnplaced(source) == source.position = None

\* Lines 104-105 and 112-113: the two "continue" tests.
Skipped(source) == source.position = None \/ source.name \notin audio_files

AddSource ==
    /\ pc = "sources"
    /\ i <= Len(audio_sources)
    /\ LET source == audio_sources[i]
       IN  IF Skipped(source)
           THEN UNCHANGED <<reads, room_sources, source_count>>
           ELSE /\ reads' = Append(reads, source.name)
                /\ \E loaded \in BOOLEAN :
                     IF loaded
                     THEN /\ room_sources' = Append(room_sources, i)
                          /\ source_count' = source_count + 1
                     ELSE UNCHANGED <<room_sources, source_count>>
    /\ i' = i + 1
    /\ UNCHANGED <<pc, args, room_built, mic_positions, room_mics, simulated,
                   premix, signals, doaLocals, doa_result, output_files, disk,
                   result, fnVars, apiVars>>

\* Lines 137-143: the no-source return after the loop.
CheckSources ==
    /\ pc = "sources"
    /\ i > Len(audio_sources)
    /\ IF source_count = 0
       THEN pc' = "done" /\ result' = Failure(MSG_NO_SOURCES)
       ELSE pc' = "simulate" /\ UNCHANGED result
    /\ UNCHANGED <<args, room_built, mic_positions, i, source_count, room_sources,
                   room_mics, simulated, premix, signals, reads, doaLocals,
                   doa_result, output_files, disk, fnVars, apiVars>>

\* Lines 146-150: add_microphone, image_source_model, simulate. premix holds
\* one rendered signal per source of the room; mic_array.signals is their sum.
Simulate ==
    /\ pc = "simulate"
    /\ \/ /\ \E mics_added \in BOOLEAN : room_mics' = mics_added
          /\ Caught
          /\ UNCHANGED <<simulated, premix, signals>>
       \/ /\ room_mics' = TRUE
          /\ simulated' = TRUE
          /\ premix' \in [1..Len(room_sources) -> StepSignals]
          /\ signals' = MixDown(premix')
          /\ pc' = "doa"
          /\ UNCHANGED result
    /\ UNCHANGED <<args, room_built, mic_positions, i, source_count, room_sources,
                   reads, doaLocals, doa_result, output_files, disk, fnVars, apiVars>>

\* Lines 155-169: DOA only with two microphones or more; the STFT and the
\* set-up sit in the stage's own try, whose handler leaves doa_result None.
\* Mutant of RunsDoa: DOA attempted with a single microphone.
RunsDoaWithOne(mics) == Len(mics) >= 1

\* Line 156: "if len(microphones) >= 2".
RunsDoa(mics) == Len(mics) >= MIN_DOA_MICS

DoaStart ==
    /\ pc = "doa"
    /\ IF RunsDoa(microphones)
       THEN \E throws \in BOOLEAN :
              IF throws
              THEN pc' = "write" /\ doa_error' = TRUE
              ELSE pc' = "algo" /\ UNCHANGED doa_error
       ELSE pc' = "write" /\ UNCHANGED doa_error
    /\ i' = 1
    /\ UNCHANGED <<args, room_built, mic_positions, source_count, room_sources,
                   room_mics, simulated, premix, signals, reads, spatial_resp,
                   estimated_angles, azimuth_grid, raised, doa_result,
                   output_files, disk, result, fnVars, apiVars>>

\* Lines 192-196: doa.azimuth_recon.tolist(), num_src angles of the grid, or
\* [] when the DOA objects of the installed library have no azimuth_recon.
EstimatedAngles(num_src) ==
    IF has_recon
    THEN SubSeq(Grid, 1, IF num_src < GridLen THEN num_src ELSE GridLen)
    ELSE <<>>

\* Mutant of AlgoRaises: no inner handler, the exception reaches the handler
\* of the DOA stage and the remaining algorithms are not run.
AlgoRaisesAborts(algo_name) ==
    /\ raised' = raised \cup {algo_name}
    /\ doa_error' = TRUE
    /\ pc' = "write"
    /\ i' = 1
    /\ UNCHANGED <<spatial_resp, estimated_angles, azimuth_grid, doa_result>>

\* Lines 198-201: the handler of the inner try stores two empty lists for the
\* algorithm and the loop goes on. The try block can raise before or after
\* azimuth_grid was taken.
AlgoRaises(algo_name) ==
    /\ spatial_resp' = [spatial_resp EXCEPT ![algo_name] = <<>>]
    /\ estimated_angles' = [estimated_angles EXCEPT ![algo_name] = <<>>]
    /\ raised' = raised \cup {algo_name}
    /\ \E grid_taken \in BOOLEAN :
         azimuth_grid' = IF grid_taken /\ azimuth_grid = None
                         THEN Grid ELSE azimuth_grid
    /\ i' = i + 1
    /\ UNCHANGED <<pc, doa_error, doa_result>>

\* Lines 173-196: construct the algorithm, locate_sources, take the grid,
\* normalise the response, read the estimates.
AlgoReturns(algo_name) ==
    /\ \E values \in StepCurves :
         spatial_resp' = [spatial_resp EXCEPT ![algo_name] = NormalizeSim(values)]
    /\ estimated_angles' =
         [estimated_angles EXCEPT ![algo_name] = EstimatedAngles(source_count)]
    /\ azimuth_grid' = IF azimuth_grid = None THEN Grid ELSE azimuth_grid
    /\ i' = i + 1
    /\ UNCHANGED <<pc, raised, doa_error, doa_result>>

\* Lines 171-201, one iteration of "for algo_name in algo_names".
DoaAlgo ==
    /\ pc = "algo"
    /\ i <= Len(algo_names)
    /\ \/ AlgoRaises(algo_names[i])
       \/ AlgoReturns(algo_names[i])
    /\ UNCHANGED <<args, room_built, mic_positions, source_count, room_sources,
                   room_mics, simulated, premix, signals, reads,
                   output_files, disk, result, fnVars, apiVars>>

\* Lines 203-221: the ground-truth loop and the result bundle.
DoaFinish ==
    /\ pc = "algo"
    /\ i > Len(algo_names)
    /\ doa_result' = [none |-> FALSE,
                      azimuth_grid |-> azimuth_grid,
                      spatial_response |-> spatial_resp,
                      estimated_angles |-> estimated_angles,
                      true_angles |-> InlineTrueAngles(robot_position, audio_sources)]
    /\ pc' = "write"
    /\ i' = 1
    /\ UNCHANGED <<args, room_built, mic_positions, source_count, room_sources,
                   room_mics, simulated, premix, signals, reads, doaLocals,
                   output_files, disk, result, fnVars, apiVars>>

SourceFile(k) == <<"source", k>>
MixedFile == <<"mixed", 0>>

\* Lines 232-238 and 247-253: normalise to a peak of 0.9, convert to int16.
Rendered(signal) == ToInt16(PeakNormalize(signal))

\* Lines 230-242, one iteration over premix.shape[0]; wavfile.write may raise.
WriteSource ==
    /\ pc = "write"
    /\ i <= Len(premix)
    /\ \/ Caught /\ UNCHANGED <<i, output_files, disk>>
       \/ /\ disk' = Append(disk, [name |-> SourceFile(i), samples |-> Rendered(premix[i])])
          /\ output_files' = Append(output_files, SourceFile(i))
          /\ i' = i + 1
          /\ UNCHANGED <<pc, result>>
    /\ UNCHANGED <<args, room_built, mic_positions, source_count, room_sources,
                   room_mics, simulated, premix, signals, reads, doaLocals,
                   doa_result, fnVars, apiVars>>

\* Lines 245-257: the mixed file, only with more than one source.
\* Mutant of WantsMixed: a mixed file for a single source as well.
WantsMixedAlways(count) == count > 0

\* Line 245: "if source_count > 1".
WantsMixed(count) == count > 1

WriteMixed ==
    /\ pc = "write"
    /\ i > Len(premix)
    /\ IF WantsMixed(source_count)
       THEN \/ Caught /\ UNCHANGED <<output_files, disk>>
            \/ /\ disk' = Append(disk, [name |-> MixedFile, samples |-> Rendered(signals)])
               /\ output_files' = Append(output_files, MixedFile)
               /\ pc' = "return"
               /\ UNCHANGED result
       ELSE pc' = "return" /\ UNCHANGED <<output_files, disk, result>>
    /\ UNCHANGED <<args, room_built, mic_positions, i, source_count, room_sources,
                   room_mics, simulated, premix, signals, reads, doaLocals,
                   doa_result, fnVars, apiVars>>

\* Lines 259-264: the successful return.
Return ==
    /\ pc = "return"
    /\ result' = [returned |-> TRUE, success |-> TRUE, message |-> MSG_DONE,
                  n |-> Len(output_files), output_files |-> output_files,
                  doa |-> doa_result]
    /\ pc' = "done"
    /\ UNCHANGED <<args, room_built, mic_positions, i, source_count, room_sources,
                   room_mics, simulated, premix, signals, reads, doaLocals,
                   doa_result, output_files, disk, fnVars, apiVars>>

Next ==
    \/ MakeRoom
    \/ CheckMics
    \/ AddSource
    \/ CheckSources
    \/ Simulate
    \/ DoaStart
    \/ DoaAlgo
    \/ DoaFinish
    \/ WriteSource
    \/ WriteMixed
    \/ Return

Spec == Init /\ [][Next]_vars

\* ------------------------------------------------- the /simulate endpoint

\* The keys of the dictionary run_simulation returns, in insertion order: the
\* same four in each of its return statements.
ResultKeys == <<"success", "message", "output_files", "doa">>

\* main.py line 107: the number of names on the left of the assignment.
UNPACK_TARGETS == 3

\* "a, b, c = d" iterates d, and iterating a dictionary yields its keys: the
\* assignment raises ValueError unless there are exactly as many keys as
\* names, and then binds the names to the keys, which are strings.
Unpacks(keys) == Len(keys) = UNPACK_TARGETS
Unpacked(keys) == [k \in 1..UNPACK_TARGETS |-> [type |-> "str", val |-> keys[k]]]

\* models.py lines 44-49: the field types of SimulationResponse. A str is
\* accepted as a bool only when it spells one, and never as a list.
BoolStrings == {"true", "false", "1", "0", "on", "off", "yes", "no", "y", "n", "t", "f"}
TrueStrings == {"true", "1", "on", "yes", "y", "t"}
ValidBool(v) == v.type = "bool" \/ (v.type = "str" /\ v.val \in BoolStrings)
ValidStr(v) == v.type = "str"
ValidList(v) == v.type = "list"

\* main.py lines 118-122: SimulationResponse(success=, message=, output_files=).
SimulationResponse(success, message, files) ==
    IF ValidBool(success) /\ ValidStr(message) /\ ValidList(files)
    THEN [raised |-> FALSE,
          success |-> IF success.type = "str" THEN success.val \in TrueStrings
                      ELSE success.val,
          message |-> message.val, output_files |-> files.val]
    ELSE [NoResponse EXCEPT !.raised = TRUE]

\* main.py lines 98-116: the endpoint has turned the request into dictionaries
\* and called run_simulation with them.
InitApi ==
    /\ Called
    /\ FnIdle
    /\ epc = "call"
    /\ response = NoResponse

\* main.py lines 107-122: run_simulation has returned; its result is unpacked
\* into success, message, output_files and the response is built from them.
\* The handler has no try: an exception leaves it, and no SimulationResponse
\* is returned.
SimulateEndpoint ==
    /\ epc = "call"
    /\ pc = "done"
    /\ result.returned
    /\ LET keys == ResultKeys
       IN  IF Unpacks(keys)
           THEN LET names == Unpacked(keys)
                IN  response' = SimulationResponse(names[1], names[2], names[3])
           ELSE response' = [NoResponse EXCEPT !.raised = TRUE]
    /\ epc' = IF response'.raised THEN "raised" ELSE "responded"
    /\ UNCHANGED <<simVars, fnVars>>

NextApi ==
    \/ Next
    \/ SimulateEndpoint

SpecApi == InitApi /\ [][NextApi]_vars

\* ------------------------------------------- the helpers on bounded inputs

Coords == 0..MaxCoord
Points == Coords \X Coords
\* Position lists: entry k is absent (None) or holds p (odd k) or p with its
\* coordinates exchanged (even k).
Positions(placement, p) ==
    [k \in DOMAIN placement |->
        IF placement[k] THEN (IF k % 2 = 1 THEN p ELSE <<p[2], p[1]>>) ELSE None]
RawCurves == [1..GridLen -> 0..MaxResp]
Signals == [1..SigLen -> (-MaxAmp)..MaxAmp]
\* Premixes: the first source renders a, every further source renders b:
\* silence, a burst, or the negation of a (the two cancel in the mix).
Others(a) == StepSignals \cup {[k \in DOMAIN a |-> -a[k]]}
Premix(n, a, b) == [k \in 1..n |-> IF k = 1 THEN a ELSE b]

MSG_DOA_MICS == "DOA needs at least 2 microphones"
MSG_DOA_ERROR == "DOA error"
MSG_DOA_DONE == "DOA analysis complete"

\* doa.py run_doa: fewer than two signal files is a failure; an exception of
\* the loading, the STFT or the SRP object is caught; otherwise the grid, the
\* normalised response and the estimates are returned.
run_doa(n_mics, throws, values) ==
    IF n_mics < DOA_MIN_MICS
    THEN [NoRet EXCEPT !.message = MSG_DOA_MICS]
    ELSE IF throws
    THEN [NoRet EXCEPT !.message = MSG_DOA_ERROR]
    ELSE [NoRet EXCEPT !.success = TRUE,
                       !.message = MSG_DOA_DONE,
                       !.azimuth_grid = Grid,
                       !.spatial_response = NormalizeDoa(values),
                       !.estimated_angles = EstimatedAngles(DEFAULT_NUM_SOURCES)]

\* simulation.py lines 229-257 on a given premix: the per-source signals and,
\* with more than one source, the mix, each normalised on its own.
RenderAll(pm) ==
    [NoRet EXCEPT !.sources = [k \in DOMAIN pm |-> Rendered(pm[k])],
                  !.mixed = IF Len(pm) > 1 THEN Rendered(MixDown(pm)) ELSE <<>>]

InitFn ==
    /\ SimIdle
    /\ ApiIdle
    /\ has_recon \in BOOLEAN
    /\ SimLocalsInit
    /\ fpc = "call"
    /\ fret = NoRet
    /\ \/ \E r \in Points, p \in Points, placement \in Placements,
             f \in {"calculate_true_angles", "inline"} :
            farg = [NoArg EXCEPT !.fn = f, !.robot_position = r,
                                 !.source_positions = Positions(placement, p)]
       \/ \E n \in 0..MaxMics, t \in BOOLEAN, v \in RawCurves :
            farg = [NoArg EXCEPT !.fn = "run_doa", !.n_mics = n, !.throws = t, !.values = v]
       \/ \E n \in 1..MaxSources, a \in Signals :
            \E b \in Others(a) :
              farg = [NoArg EXCEPT !.fn = "render", !.premix = Premix(n, a, b)]

CallCalculateTrueAngles ==
    /\ fpc = "call" /\ farg.fn = "calculate_true_angles"
    /\ fret' = [NoRet EXCEPT !.angles =
                   calculate_true_angles(farg.robot_position, farg.source_positions)]
    /\ fpc' = "done"
    /\ UNCHANGED <<farg, simVars, apiVars>>

CallInlineTrueAngles ==
    /\ fpc = "call" /\ farg.fn = "inline"
    /\ fret' = [NoRet EXCEPT !.angles =
                   InlineTrueAngles(farg.robot_position, Request(farg.source_positions))]
    /\ fpc' = "done"
    /\ UNCHANGED <<farg, simVars, apiVars>>

CallRunDoa ==
    /\ fpc = "call" /\ farg.fn = "run_doa"
    /\ fret' = run_doa(farg.n_mics, farg.throws, farg.values)
    /\ fpc' = "done"
    /\ UNCHANGED <<farg, simVars, apiVars>>

CallRender ==
    /\ fpc = "call" /\ farg.fn = "render"
    /\ fret' = RenderAll(farg.premix)
    /\ fpc' = "done"
    /\ UNCHANGED <<farg, simVars, apiVars>>

NextFn ==
    \/ CallCalculateTrueAngles
    \/ CallInlineTrueAngles
    \/ CallRunDoa
    \/ CallRender

SpecFn == InitFn /\ [][NextFn]_vars

\* ================================================================ claims

Messages == {MSG_NO_MICS, MSG_NO_SOURCES, MSG_ERROR, MSG_DONE}

\* C1: run_simulation never lets an exception escape: whenever it stops it has
\* returned a result with a success flag and a message, and a result whose
\* success is False has an empty output_files list and doa None.
C1_NoEscape ==
    /\ (~ ENABLED Next) => pc = "done"
    /\ pc = "done" =>
         /\ result.returned
         /\ result.success \in BOOLEAN
         /\ result.message \in Messages
    /\ (result.returned /\ ~ result.success) =>
         /\ result.output_files = <<>>
         /\ result.doa.none

\* C1 witness: an exception was raised after a file had been written, and the
\* run returned the failure of the outer handler.
C1_Witness ==
    /\ pc = "done"
    /\ result.message = MSG_ERROR
    /\ disk # <<>>
    /\ output_files # <<>>

\* The entries of audio_sources that have a position and an uploaded file.
Usable(sources) ==
    SelectSeq(sources, LAMBDA src : src.position # None /\ src.name \in audio_files)

SourceLoopOver == pc \in {"simulate", "doa", "algo", "write", "return"}
                  \/ (pc = "sources" /\ i > Len(audio_sources))

\* C2: a source without an audio_files entry, or whose audio fails to load or
\* to be added, is skipped and the later sources are still processed (every
\* usable source is read, in order, whatever happened to the ones before it);
\* with a room built and a microphone, the run fails with the no-source message
\* exactly when no source was added.
C2_SkipAndGoOn ==
    /\ SourceLoopOver =>
         /\ reads = [k \in DOMAIN Usable(audio_sources) |-> Usable(audio_sources)[k].name]
         /\ source_count = Len(room_sources)
         /\ \A k \in DOMAIN room_sources :
              /\ audio_sources[room_sources[k]].position # None
              /\ audio_sources[room_sources[k]].name \in audio_files
    /\ (result.returned /\ room_built /\ Len(microphones) > 0) =>
         (result.message = MSG_NO_SOURCES <=> room_sources = <<>>)

\* C2 witness: the first source's audio failed to load, the second was added,
\* and the run went on to the simulation.
C2_Witness ==
    /\ pc = "simulate"
    /\ Len(reads) = 2
    /\ room_sources = <<2>>

\* The output list the claim describes for n simulated sources.
ExpectedFiles(n) ==
    [k \in 1..n |-> SourceFile(k)] \o (IF n > 1 THEN <<MixedFile>> ELSE <<>>)

\* C3: a successful run with n sources added lists source_1 .. source_n in
\* order, followed by one mixed file exactly when n > 1.
C3_OutputFiles ==
    (result.returned /\ result.success) =>
        /\ result.output_files = ExpectedFiles(Len(room_sources))
        /\ result.n = Len(result.output_files)
        /\ \A k \in DOMAIN result.output_files : disk[k].name = result.output_files[k]

\* C3 witness: a successful run of two sources, three files.
C3_Witness ==
    /\ result.returned /\ result.success
    /\ Len(room_sources) = 2
    /\ result.output_files = <<SourceFile(1), SourceFile(2), MixedFile>>

Succeeded == result.returned /\ result.success

\* What a bundle holds for one algorithm: two empty lists if it raised, else a
\* response over the whole grid and the estimates read from the object.
Reported(bundle, a) ==
    IF a \in raised
    THEN bundle.spatial_response[a] = <<>> /\ bundle.estimated_angles[a] = <<>>
    ELSE /\ Len(bundle.spatial_response[a]) = GridLen
         /\ bundle.estimated_angles[a] = EstimatedAngles(source_count)

WellFormedBundle(bundle) ==
    /\ ~ bundle.none
    /\ bundle.azimuth_grid \in {None, Grid}
    /\ (raised # Algos) => bundle.azimuth_grid = Grid
    /\ \A a \in Algos : Reported(bundle, a)
    /\ bundle.true_angles = InlineTrueAngles(robot_position, audio_sources)

\* C4 as stated: on a successful run doa is None with fewer than 2 microphones
\* and a bundle with 2 or more.
C4_Original ==
    Succeeded =>
        /\ Len(microphones) < 2 => result.doa.none
        /\ Len(microphones) >= 2 => ~ result.doa.none

\* C4 amended: on a successful run doa is None exactly when fewer than 2
\* microphones were supplied or the set-up of the DOA stage (the STFT) raised;
\* otherwise it is a bundle of the azimuth grid, the responses and estimates of
\* SRP, MUSIC and TOPS, and the ground-truth angles.
C4_DoaPresence ==
    Succeeded =>
        /\ result.doa.none <=> (Len(microphones) < 2 \/ doa_error)
        /\ (~ result.doa.none) => WellFormedBundle(result.doa)

\* C4 witness: a successful run with two microphones whose DOA stage raised
\* in its set-up: doa is None.
C4_Witness ==
    /\ Succeeded
    /\ Len(microphones) >= 2
    /\ doa_error
    /\ result.doa.none

\* C5: an algorithm that raises is reported with an empty response and empty
\* estimates, the algorithms after it are still run and reported, and the run
\* goes on: when every file was written it returns success with the bundle.
C5_AlgoIsolation ==
    /\ pc = "algo" =>
         /\ raised \subseteq {algo_names[k] : k \in 1..(i - 1)}
         /\ \A k \in 1..(i - 1) :
              Reported([spatial_response |-> spatial_resp,
                        estimated_angles |-> estimated_angles], algo_names[k])
    /\ (~ doa_result.none) => \A a \in Algos : Reported(doa_result, a)
    /\ (raised # {} /\ pc \in {"algo", "write", "return"}) => ~ result.returned
    /\ (raised # {} /\ pc = "done"
          /\ Len(disk) = Len(ExpectedFiles(Len(room_sources)))) =>
         /\ Succeeded
         /\ result.output_files = ExpectedFiles(Len(room_sources))
         /\ ~ result.doa.none
         /\ \A a \in Algos : Reported(result.doa, a)

\* C5 witness: MUSIC alone raised; the run succeeded and reports SRP and TOPS.
C5_Witness ==
    /\ Succeeded
    /\ raised = {"MUSIC"}
    /\ result.doa.spatial_response["MUSIC"] = <<>>
    /\ Len(result.doa.spatial_response["SRP"]) = GridLen
    /\ Len(result.doa.spatial_response["TOPS"]) = GridLen

\* A reported curve with minimum 0 and maximum 1, or all zeros.
IsZero(v) == v[1] = 0
IsOne(v) == v[1] = v[2]
InUnit(v) == 0 <= v[1] /\ v[1] <= v[2]
NormalisedCurve(curve) ==
    \/ \A k \in DOMAIN curve : IsZero(curve[k])
    \/ /\ \A k \in DOMAIN curve : InUnit(curve[k])
       /\ \E k \in DOMAIN curve : IsZero(curve[k])
       /\ \E k \in DOMAIN curve : IsOne(curve[k])

\* C6 as stated: every spatial response that run_simulation reports has
\* minimum 0 and maximum 1, or is all zeros (the flat case).
C6_Original ==
    (Succeeded /\ ~ result.doa.none) =>
        \A a \in Algos : NormalisedCurve(result.doa.spatial_response[a])

\* The work run_simulation does after building the room.
NoWorkDone ==
    /\ reads = <<>>
    /\ room_sources = <<>>
    /\ ~ room_mics
    /\ ~ simulated
    /\ disk = <<>>

\* C7 as stated: a degenerate room polygon or a non-positive robot radius is
\* rejected with a failure before any audio is read, any source or microphone
\* added, any simulation run or any file written.
C7_Original ==
    (Degenerate(room_coords) \/ robot_radius <= 0) =>
        /\ NoWorkDone
        /\ result.returned => ~ result.success

\* C8 as stated: the ground-truth list of a bundle has one entry per simulated
\* source, index-aligned with the sources added to the room.
C8_Original ==
    (Succeeded /\ ~ result.doa.none) =>
        /\ Len(result.doa.true_angles) = Len(room_sources)
        /\ \A k \in DOMAIN room_sources :
             k \in DOMAIN result.doa.true_angles
             /\ result.doa.true_angles[k] =
                  InlineAngle(robot_position, audio_sources[room_sources[k]].position)

\* ----------------------------------------------- claims about the helpers

AngleCallDone == fpc = "done" /\ farg.fn \in {"calculate_true_angles", "inline"}

\* The positions of the call that are not None, in order.
ActivePositions == SelectSeq(farg.source_positions, LAMBDA p : p # None)

\* What the claim says of the bearing a of a source displaced by (dx, dy).
BearingOK(a, dx, dy) ==
    /\ 0 <= a /\ a < 2 * Pi
    /\ (a - Arctan2(-dy, dx)) % (2 * Pi) = 0
    /\ (dy = 0 /\ dx > 0) => a = 0
    /\ (dx = 0 /\ dy < 0) => 2 * a = Pi
    /\ (dy = 0 /\ dx < 0) => a = Pi
    /\ (dx = 0 /\ dy > 0) => 2 * a = 3 * Pi
    /\ dy < 0 => (0 < a /\ a < Pi)
    /\ dy > 0 => (Pi < a /\ a < 2 * Pi)

RenderCallDone == fpc = "done" /\ farg.fn = "render"

Peak(signal) == SeqMax([k \in DOMAIN signal |-> Abs(signal[k])])

\* 0.9 of the int16 full scale, as an int16.
PeakOut == (9 * INT16_SCALE) \div 10

\* out is signal scaled by 0.9 * INT16_SCALE / Peak(signal), truncated towards
\* zero, or signal itself when it is silent.
PeakNormalised(signal, out) ==
    /\ DOMAIN out = DOMAIN signal
    /\ IF Peak(signal) = 0
       THEN \A k \in DOMAIN out : out[k] = 0
       ELSE /\ Peak(out) = PeakOut
            /\ \A k \in DOMAIN out :
                 /\ (signal[k] > 0 => out[k] >= 0) /\ (signal[k] < 0 => out[k] <= 0)
                 /\ 10 * Peak(signal) * Abs(out[k]) <= Abs(signal[k]) * 9 * INT16_SCALE
                 /\ Abs(signal[k]) * 9 * INT16_SCALE < 10 * Peak(signal) * (Abs(out[k]) + 1)

\* Sample-wise sum of the signals of a premix.
SumOf(pm) == [k \in 1..SigLen |-> SeqSum([s \in DOMAIN pm |-> pm[s][k]])]

\* C10: every per-source signal and the mixed signal is normalised by its own
\* peak: to a peak of 0.9 of full scale when it is not silent, unchanged (all
\* zeros) when it is.
C10_PeakNormalised ==
    RenderCallDone =>
        /\ Len(fret.sources) = Len(farg.premix)
        /\ \A k \in DOMAIN farg.premix : PeakNormalised(farg.premix[k], fret.sources[k])
        /\ Len(farg.premix) > 1 => PeakNormalised(SumOf(farg.premix), fret.mixed)

\* C10 witness: a loud first source, a silent second source and a mix that is
\* not silent: the first file and the mix peak at 0.9 of full scale, the second
\* file is all zeros.
C10_Witness ==
    /\ RenderCallDone
    /\ Len(farg.premix) = 2
    /\ Peak(farg.premix[1]) = MaxAmp
    /\ Peak(farg.premix[2]) = 0
    /\ Peak(fret.sources[1]) = PeakOut
    /\ Peak(fret.sources[2]) = 0
    /\ Peak(fret.mixed) = PeakOut

\* The endpoint has finished, one way or the other.
EndpointDone == epc \in {"responded", "raised"}

\* C11 as stated: the endpoint raises nothing when it consumes the result, and
\* answers with a SimulationResponse whose success, message and output_files
\* are those of the dictionary run_simulation returned.
C11_Original ==
    EndpointDone =>
        /\ ~response.raised
        /\ epc = "responded"
        /\ response.success = result.success
        /\ response.message = result.message
        /\ response.output_files = result.output_files

====
